---- MODULE Spec2Model ----
(***************************************************************************)
(* Model of tf_data_loader/readers.py: DataReader and DataNpzReader.       *)
(*                                                                         *)
(* The reader is a single-threaded object.  Every public method is one     *)
(* action that runs the whole method and records its outcome in `result`.  *)
(* The only method whose effect is spread over several steps is            *)
(* make_batch_with_iterator: the method builds batch_size get_next         *)
(* operations (with their control dependencies) and the engine then runs   *)
(* them in any order the dependencies allow; the call's outcome is known   *)
(* when the engine has run them all or one of them hit the end of the      *)
(* iterator.                                                               *)
(***************************************************************************)
EXTENDS Integers, Sequences, FiniteSets, TLC

VARIABLES
  data_dir,   \* self.data_dir
  features,   \* self.features: key -> handler
  result,     \* the last call: its arguments and how it ended
  opened,     \* the files the last call opened with open()
  pc,         \* "idle", or "running" while the engine evaluates a batch
  it,         \* the iterator the running batch draws from
  batch,      \* the list `batch` of make_batch_with_iterator, one entry per draw
  sample      \* the dict `sample` make_batch_with_iterator built

vars == <<data_dir, features, result, opened, pc, it, batch, sample>>

----------------------------------------------------------------------------
(* Bounds of the model *)

\* longest config.yaml list
MaxSchema == 2
\* largest batch_size passed to a batch call
MaxBatch == 3
\* most records behind an iterator handed to make_batch_with_iterator
MaxRecords == 3

----------------------------------------------------------------------------
(* Small universes the inputs are drawn from *)

FeatureKeys == {"x", "y"}

\* the handler classes of tf_data_loader.allfeatures a config entry can name
HandlerNames == {"TensorFeature", "SparseTensorFeature", "GraphFeature"}

\* one entry of config.yaml
YamlDicts == [__name__ : HandlerNames, key : FeatureKeys]

RECURSIVE SeqsUpTo(_, _)
SeqsUpTo(S, n) ==
  IF n = 0 THEN {<< >>}
  ELSE LET shorter == SeqsUpTo(S, n - 1)
       IN  shorter \cup {Append(s, e) : s \in {t \in shorter : Len(t) = n - 1}, e \in S}

DataDirs == {"data"}

ModeNames == {"data_train", "data_test", "data_none"}

EmptyMap == [k \in {} |-> 0]

\* Python's None where an integer is expected (repeat, buffer_size)
None == -1

----------------------------------------------------------------------------
(* Feature handlers (tf_data_loader.allfeatures) *)

\* cls.from_yaml_dict(yaml_dict): the handler built from one config entry
from_yaml_dict(yaml_dict) ==
  [cls |-> yaml_dict.__name__, key |-> yaml_dict.key]

\* the members a handler reads from a record and hands out as tensors
Members(feat) ==
  CASE feat.cls = "TensorFeature"       -> {"value"}
    [] feat.cls = "SparseTensorFeature" -> {"indices", "values"}
    [] feat.cls = "GraphFeature"        -> {"nodes", "edges"}

DescKey(key, m) == key \o "/" \o m

\* feat.get_feature_read(): descriptor key -> read descriptor
get_feature_read(feat) ==
  LET how == IF feat.cls = "SparseTensorFeature" THEN "VarLenFeature"
             ELSE "FixedLenFeature"
  IN  [d \in {DescKey(feat.key, m) : m \in Members(feat)} |-> how]

\* feat.tensors_to_item(example): a Tensor, a SparseTensor or a dict of Tensors
tensors_to_item(feat, example) ==
  [type  |-> CASE feat.cls = "TensorFeature"       -> "Tensor"
               [] feat.cls = "SparseTensorFeature" -> "SparseTensor"
               [] feat.cls = "GraphFeature"        -> "dict",
   parts |-> [m \in Members(feat) |-> example[DescKey(feat.key, m)]]]

\* feat.stack(values): the batched value, one slice per element of values
stack(feat, values) ==
  [by |-> feat.key, cls |-> feat.cls, dim0 |-> Len(values), slices |-> values]

\* feat.get_placeholder_and_feature(batch): the placeholders of the handler,
\* by name, and the symbolic value built on them
get_placeholder_and_feature(feat, batched) ==
  LET ph == [d \in {DescKey(feat.key, m) : m \in Members(feat)} |->
               [placeholder |-> d, batched |-> batched]]
  IN  [ph  |-> ph,
       val |-> tensors_to_item(feat, ph)]

\* feat.get_feed_dict(placeholders, value_dict, batch): the handler's part of
\* the feed mapping; it needs its own raw value and fails without it
handler_get_feed_dict(feat, placeholders, value_dict, batched) ==
  IF feat.key \notin DOMAIN value_dict
  THEN [err |-> "KeyError", dict |-> EmptyMap]
  ELSE [err  |-> "",
        dict |-> [p \in {placeholders[DescKey(feat.key, m)] : m \in Members(feat)} |->
                    [raw |-> value_dict[feat.key], batched |-> batched]]]

----------------------------------------------------------------------------
(* DataReader.__init__ *)

RECURSIVE FeatureList(_)
\* lines 81-87: feature_list, one handler per entry, in schema order
FeatureList(yaml_list) ==
  IF yaml_list = << >> THEN << >>
  ELSE Append(FeatureList(SubSeq(yaml_list, 1, Len(yaml_list) - 1)),
              from_yaml_dict(yaml_list[Len(yaml_list)]))

RECURSIVE FirstWins(_)
FirstWins(feature_list) ==
  IF feature_list = << >> THEN EmptyMap
  ELSE LET n    == Len(feature_list)
           feat == feature_list[n]
       IN  FirstWins(SubSeq(feature_list, 1, n - 1)) @@ (feat.key :> feat)

RECURSIVE DictOfFeatures(_)
\* line 88: { feat.key: feat for feat in feature_list }; a later entry rebinds
\* the key of an earlier one
DictOfFeatures(feature_list) ==
  IF feature_list = << >> THEN EmptyMap
  ELSE LET n    == Len(feature_list)
           feat == feature_list[n]
       IN  (feat.key :> feat) @@ DictOfFeatures(SubSeq(feature_list, 1, n - 1))

----------------------------------------------------------------------------
(* The file system under data_dir *)

\* <data_dir>/<mode>/*.tfrecords: file name -> the records stored in it
TfrecordFiles(dir, mode) ==
  IF dir # "data" THEN EmptyMap
  ELSE CASE mode = "data_train" -> ("a.tfrecords" :> <<1, 2>>) @@ ("b.tfrecords" :> <<3>>)
         [] mode = "data_test"  -> ("a.tfrecords" :> <<4>>)
         [] OTHER               -> EmptyMap

Records == {1, 2, 3, 4}

\* the .npz archives that exist, by path: stored key -> stored array
NpzFiles ==
     ("data/data_test/0007.npz"   :> (("x" :> "x7") @@ ("extra" :> "e7")))
  @@ ("data/data_test/007.npz"    :> ("x" :> "stray"))
  @@ ("data/data_test/7.npz"      :> ("x" :> "stray"))
  @@ ("data/data_test/0000.npz"   :> (("x" :> "x0") @@ ("y" :> "y0")))
  @@ ("data/data_test/10000.npz"  :> ("y" :> "y10000"))
  @@ ("data/data_train/0123.npz"  :> EmptyMap)

Indexes == {0, 7, 42, 123, 9999, 10000}

\* os.path.join of relative components
PathJoin(a, b) == a \o "/" \o b

----------------------------------------------------------------------------
(* Outcomes of a call *)

Returned(op, args, value) ==
  [op |-> op, args |-> args, status |-> "returned", err |-> "", value |-> {value}]

Raised(op, args, err) ==
  [op |-> op, args |-> args, status |-> "raised", err |-> err, value |-> {}]

Running(op, args) ==
  [op |-> op, args |-> args, status |-> "running", err |-> "", value |-> {}]

NoIterator == [src |-> << >>, rep |-> 1, pos |-> 0]

\* a call that assembles no batch has no iterator, no `batch`, no `sample`
NoBatch == it' = NoIterator /\ batch' = << >> /\ sample' = EmptyMap

----------------------------------------------------------------------------
(* DataReader.get_parser_op *)

RECURSIVE UpdateAll(_, _)
\* lines 98-100: keys_to_features, updated with every handler's read-descriptors
UpdateAll(feats, keys) ==
  IF keys = {} THEN EmptyMap
  ELSE LET k == CHOOSE k \in keys : TRUE
       IN  get_feature_read(feats[k]) @@ UpdateAll(feats, keys \ {k})

keys_to_features(feats) == UpdateAll(feats, DOMAIN feats)

\* tf.parse_single_example(record, keys_to_features): one tensor per descriptor
parse_single_example(record, ktf) ==
  [d \in DOMAIN ktf |-> [rec |-> record, field |-> d, how |-> ktf[d]]]

\* a parser that hands back the parsed example itself
parser_op_raw(feats, record) ==
  parse_single_example(record, keys_to_features(feats))

\* lines 102-107: parser_op(record)
parser_op(feats, record) ==
  LET example == parse_single_example(record, keys_to_features(feats))
  IN  [k \in DOMAIN feats |-> tensors_to_item(feats[k], example)]

\* a get_parser_op whose loop updates self.features instead of keys_to_features
get_parser_op_updating ==
  /\ pc = "idle"
  /\ \E record \in Records :
       result' = Returned("get_parser_op", [record |-> record],
                          parser_op(features, record))
  /\ features' = keys_to_features(features) @@ features
  /\ opened' = {}
  /\ NoBatch
  /\ UNCHANGED <<data_dir, pc>>

get_parser_op ==
  /\ pc = "idle"
  /\ \E record \in Records :
       result' = Returned("get_parser_op", [record |-> record],
                          parser_op(features, record))
  /\ opened' = {}
  /\ NoBatch
  /\ UNCHANGED <<data_dir, features, pc>>

----------------------------------------------------------------------------
(* DataReader.get_tf_dataset *)

\* the names bound at module level in readers.py (lines 47-61, 63, 203)
ModuleGlobals ==
  {"os", "glob", "datetime", "abc", "np", "tf", "yaml", "importlib", "sys",
   "DataReader", "DataNpzReader"}

RECURSIVE Orderings(_)
\* the lists that hold every element of S once
Orderings(S) ==
  IF S = {} THEN {<< >>}
  ELSE UNION {{<<e>> \o s : s \in Orderings(S \ {e})} : e \in S}

RECURSIVE Concat(_, _)
\* the records of the files of data_sources, file after file
Concat(files, data_sources) ==
  IF data_sources = << >> THEN << >>
  ELSE files[Head(data_sources)] \o Concat(files, Tail(data_sources))

\* glob.glob(pattern): the matching files, in no particular order
Glob(dir, mode) == Orderings(DOMAIN TfrecordFiles(dir, mode))

get_tf_dataset ==
  /\ pc = "idle"
  /\ \E name \in ModeNames :
       \E data_sources \in Glob(data_dir, name) :
         \* line 127 reads `repeat`, which is neither a parameter, a local
         \* nor a module-level name
         result' = IF "repeat" \in ModuleGlobals
                   THEN Returned("get_tf_dataset", [name |-> name],
                                 [src |-> Concat(TfrecordFiles(data_dir, name), data_sources),
                                  rep |-> None, pos |-> 0])
                   ELSE Raised("get_tf_dataset", [name |-> name], "NameError")
  /\ opened' = {}
  /\ NoBatch
  /\ UNCHANGED <<data_dir, features, pc>>

----------------------------------------------------------------------------
(* Iterators over a dataset of parsed records *)
(* src: the records of one pass; rep: the repeat count, None for endless;  *)
(* pos: how many elements have been drawn                                  *)

Exhausted(iter) ==
  \/ Len(iter.src) = 0
  \/ iter.rep # None /\ iter.pos >= iter.rep * Len(iter.src)

\* the record behind the next element
NextRecord(iter) == iter.src[(iter.pos % Len(iter.src)) + 1]

\* the outputs of the b-th iterator.get_next() operation: the structure the
\* parser gives every element, its tensors being outputs of that operation
IteratorGetNext(feats, b) ==
  LET like == parser_op(feats, 0)
  IN  [k \in DOMAIN feats |->
        [type  |-> like[k].type,
         parts |-> [m \in DOMAIN like[k].parts |->
                     [draw |-> b, field |-> like[k].parts[m].field,
                      how |-> like[k].parts[m].how]]]]

----------------------------------------------------------------------------
(* DataReader.make_batch_with_iterator *)

\* the dependencies of a loop that passes over dict entries as well
DepsNoDict(last) ==
  UNION {IF last[k].type \in {"SparseTensor", "dict"} THEN {}
         ELSE {last[k].parts["value"]} : k \in DOMAIN last}

\* lines 147-155: deps, gathered from the entries of batch[-1]
Deps(last) ==
  UNION {IF last[k].type = "SparseTensor" THEN {}
         ELSE IF last[k].type = "dict"
              THEN {last[k].parts[m] : m \in DOMAIN last[k].parts}
              ELSE {last[k].parts["value"]} : k \in DOMAIN last}

\* lines 143-157: the list `batch`; every get_next after the first is created
\* under tf.control_dependencies(deps of the one before)
BuildBatch(feats, batch_size) ==
  LET get_next == [b \in 1..batch_size |-> IteratorGetNext(feats, b)]
  IN  [b \in 1..batch_size |->
        [elem |-> get_next[b],
         ctrl |-> IF b = 1 THEN {} ELSE Deps(get_next[b - 1]),
         done |-> FALSE,
         rec  |-> 0]]

\* a sample that stacks all draws but the last
BuildSampleShort(feats, draws, batch_size) ==
  [key \in DOMAIN feats |->
     stack(feats[key], [b \in 1..(batch_size - 1) |-> draws[b].elem[key]])]

\* lines 160-162: sample[key] = value.stack([batch[b][key] for b in range(batch_size)])
BuildSample(feats, draws, batch_size) ==
  [key \in DOMAIN feats |->
     stack(feats[key], [b \in 1..batch_size |-> draws[b].elem[key]])]

\* the value a tensor of the graph has once its get_next operation has run
EvalItem(item, draws) ==
  [type  |-> item.type,
   parts |-> [m \in DOMAIN item.parts |->
               [rec   |-> draws[item.parts[m].draw].rec,
                field |-> item.parts[m].field,
                how   |-> item.parts[m].how]]]

EvalSample(smp, draws) ==
  [key \in DOMAIN smp |->
     [by     |-> smp[key].by,
      cls    |-> smp[key].cls,
      dim0   |-> smp[key].dim0,
      slices |-> [b \in DOMAIN smp[key].slices |-> EvalItem(smp[key].slices[b], draws)]]]

\* the iterators a caller hands in: over n records, some already drawn
Iterators ==
  {[src |-> [i \in 1..q[1] |-> i], rep |-> 1, pos |-> q[2]] :
     q \in {r \in (0..MaxRecords) \X (0..MaxRecords) : r[2] <= r[1]}}

\* the caller holds an iterator of this reader's dataset; a dataset has at
\* least one component, so there is none for an empty registry
make_batch_with_iterator ==
  /\ pc = "idle"
  /\ features # EmptyMap
  /\ \E iterator \in Iterators, batch_size \in 1..MaxBatch :
       /\ result' = Running("make_batch_with_iterator",
                            [iterator |-> iterator, batch_size |-> batch_size])
       /\ it' = iterator
       /\ batch' = BuildBatch(features, batch_size)
       /\ sample' = BuildSample(features, batch', batch_size)
  /\ pc' = "running"
  /\ opened' = {}
  /\ UNCHANGED <<data_dir, features>>

\* a get_next that answers the end of the iterator by ending the batch early
RunDrawShort(b) ==
  /\ pc = "running"
  /\ b \in DOMAIN batch
  /\ ~batch[b].done
  /\ \A t \in batch[b].ctrl : batch[t.draw].done
  /\ IF Exhausted(it)
     THEN /\ result' = Returned(result.op, result.args,
                [key \in DOMAIN sample |->
                   [by |-> key, cls |-> sample[key].cls, dim0 |-> b - 1,
                    slices |-> [c \in 1..(b - 1) |-> EvalItem(batch[c].elem[key], batch)]]])
          /\ pc' = "idle"
          /\ UNCHANGED <<it, batch>>
     ELSE /\ batch' = [batch EXCEPT ![b].done = TRUE, ![b].rec = NextRecord(it)]
          /\ it' = [it EXCEPT !.pos = @ + 1]
          /\ UNCHANGED <<result, pc>>
  /\ UNCHANGED <<data_dir, features, opened, sample>>

\* the engine runs one get_next operation whose control inputs have all run;
\* at the end of the iterator the operation fails with OutOfRangeError, which
\* ends the evaluation of the batch
RunDraw(b) ==
  /\ pc = "running"
  /\ b \in DOMAIN batch
  /\ ~batch[b].done
  /\ \A t \in batch[b].ctrl : batch[t.draw].done
  /\ IF Exhausted(it)
     THEN /\ result' = Raised(result.op, result.args, "OutOfRangeError")
          /\ pc' = "idle"
          /\ UNCHANGED <<it, batch>>
     ELSE /\ batch' = [batch EXCEPT ![b].done = TRUE, ![b].rec = NextRecord(it)]
          /\ it' = [it EXCEPT !.pos = @ + 1]
          /\ UNCHANGED <<result, pc>>
  /\ UNCHANGED <<data_dir, features, opened, sample>>

\* every get_next has run: the stacked values are computed and handed back
ReturnBatch ==
  /\ pc = "running"
  /\ \A b \in DOMAIN batch : batch[b].done
  /\ result' = Returned(result.op, result.args, EvalSample(sample, batch))
  /\ pc' = "idle"
  /\ UNCHANGED <<data_dir, features, opened, it, batch, sample>>

----------------------------------------------------------------------------
(* DataReader.get_standard_batch *)

get_standard_batch ==
  /\ pc = "idle"
  /\ \E name \in ModeNames, batch_size \in 1..MaxBatch, shuffle_data \in BOOLEAN,
        buffer_size \in {None, 4}, repeat \in {None, 1} :
       LET args == [name |-> name, batch_size |-> batch_size,
                    shuffle_data |-> shuffle_data, buffer_size |-> buffer_size,
                    repeat |-> repeat]
           \* lines 184-185
           buffer == IF buffer_size = None THEN 5 * batch_size ELSE buffer_size
       IN  IF shuffle_data
           THEN \* line 188 reads the local data_sources, which line 189 binds
                /\ result' = Raised("get_standard_batch", args, "UnboundLocalError")
                /\ pc' = "idle"
                /\ NoBatch
           ELSE IF features = EmptyMap
           THEN \* line 193: a dataset of elements without components cannot be built
                /\ result' = Raised("get_standard_batch", args, "ValueError")
                /\ pc' = "idle"
                /\ NoBatch
           ELSE \* lines 189-199; the shuffle of line 196 is not reached
                \E data_sources \in Glob(data_dir, name) :
                  LET iterator == [src |-> Concat(TfrecordFiles(data_dir, name), data_sources),
                                   rep |-> repeat, pos |-> 0]
                  IN  /\ result' = Running("get_standard_batch", args)
                      /\ pc' = "running"
                      /\ it' = iterator
                      /\ batch' = BuildBatch(features, batch_size)
                      /\ sample' = BuildSample(features, batch', batch_size)
  /\ opened' = {}
  /\ UNCHANGED <<data_dir, features>>

----------------------------------------------------------------------------
(* DataNpzReader.get_placeholders *)

RECURSIVE PlaceholdersOf(_, _, _)
\* lines 223-227: placeholders, updated with every handler's placeholders
PlaceholdersOf(feats, keys, batched) ==
  IF keys = {} THEN EmptyMap
  ELSE LET k == CHOOSE k \in keys : TRUE
       IN  get_placeholder_and_feature(feats[k], batched).ph
             @@ PlaceholdersOf(feats, keys \ {k}, batched)

get_placeholders ==
  /\ pc = "idle"
  /\ \E batched \in BOOLEAN :
       result' = Returned("get_placeholders", [batch |-> batched],
                   [sample |-> [key \in DOMAIN features |->
                                  get_placeholder_and_feature(features[key], batched).val],
                    placeholders |-> PlaceholdersOf(features, DOMAIN features, batched)])
  /\ opened' = {}
  /\ NoBatch
  /\ UNCHANGED <<data_dir, features, pc>>

----------------------------------------------------------------------------
(* DataNpzReader.get_feed_dict *)

RECURSIVE FeedDictSkipping(_, _, _, _, _)
\* a loop that passes over a handler that fails
FeedDictSkipping(feats, keys, placeholders, value_dict, batched) ==
  IF keys = {} THEN [err |-> "", dict |-> EmptyMap]
  ELSE LET k    == CHOOSE k \in keys : TRUE
           one  == handler_get_feed_dict(feats[k], placeholders, value_dict, batched)
           rest == FeedDictSkipping(feats, keys \ {k}, placeholders, value_dict, batched)
       IN  IF one.err # "" THEN rest
           ELSE [err |-> "", dict |-> one.dict @@ rest.dict]

RECURSIVE FeedDict(_, _, _, _, _)
\* lines 248-251: feed_dict, updated with every handler's feed mapping; the
\* first handler that raises ends the call
FeedDict(feats, keys, placeholders, value_dict, batched) ==
  IF keys = {} THEN [err |-> "", dict |-> EmptyMap]
  ELSE LET k    == CHOOSE k \in keys : TRUE
           one  == handler_get_feed_dict(feats[k], placeholders, value_dict, batched)
           rest == FeedDict(feats, keys \ {k}, placeholders, value_dict, batched)
       IN  IF one.err # "" THEN [err |-> one.err, dict |-> EmptyMap]
           ELSE IF rest.err # "" THEN rest
           ELSE [err |-> "", dict |-> one.dict @@ rest.dict]

\* the raw values a caller supplies: any subset of these keys
ValueKeys == FeatureKeys \cup {"other"}

get_feed_dict ==
  /\ pc = "idle"
  /\ \E present \in SUBSET ValueKeys, batched \in BOOLEAN :
       LET value_dict   == [k \in present |-> "raw_" \o k]
           placeholders == PlaceholdersOf(features, DOMAIN features, batched)
           args         == [placeholders |-> placeholders, value_dict |-> value_dict,
                            batch |-> batched]
           feed         == FeedDict(features, DOMAIN features, placeholders, value_dict,
                                    batched)
       IN  result' = IF feed.err # ""
                     THEN Raised("get_feed_dict", args, feed.err)
                     ELSE Returned("get_feed_dict", args, feed.dict)
  /\ opened' = {}
  /\ NoBatch
  /\ UNCHANGED <<data_dir, features, pc>>

----------------------------------------------------------------------------
(* DataNpzReader.load_npz_file *)

\* the field width of '{:04d}' (line 256)
PadWidth == 4

Digit(d) ==
  CASE d = 0 -> "0" [] d = 1 -> "1" [] d = 2 -> "2" [] d = 3 -> "3" [] d = 4 -> "4"
    [] d = 5 -> "5" [] d = 6 -> "6" [] d = 7 -> "7" [] d = 8 -> "8" [] d = 9 -> "9"

RECURSIVE Decimal(_)
\* the decimal digits of n >= 0, and how many they are
Decimal(n) ==
  IF n < 10 THEN [str |-> Digit(n), len |-> 1]
  ELSE LET hi == Decimal(n \div 10)
       IN  [str |-> hi.str \o Digit(n % 10), len |-> hi.len + 1]

RECURSIVE ZeroFill(_, _)
\* zeros put in front of a number until it is width characters long
ZeroFill(num, width) ==
  IF num.len >= width THEN num.str
  ELSE ZeroFill([str |-> "0" \o num.str, len |-> num.len + 1], width)

\* the name of a format that does not pad
FileNameUnpadded(index) == Decimal(index).str \o ".npz"

\* line 256: '{:04d}.npz'.format(index), for index >= 0
FileName(index) == ZeroFill(Decimal(index), PadWidth) \o ".npz"

load_npz_file ==
  /\ pc = "idle"
  /\ \E name \in ModeNames, index \in Indexes :
       LET fname == PathJoin(PathJoin(data_dir, name), FileName(index))
           args  == [name |-> name, index |-> index]
       IN  /\ opened' = {fname}
           /\ result' = IF fname \in DOMAIN NpzFiles
                        THEN Returned("load_npz_file", args, NpzFiles[fname])
                        ELSE Raised("load_npz_file", args, "FileNotFoundError")
  /\ NoBatch
  /\ UNCHANGED <<data_dir, features, pc>>

----------------------------------------------------------------------------

Init ==
  /\ data_dir \in DataDirs
  /\ \E yaml_list \in SeqsUpTo(YamlDicts, MaxSchema) :
       /\ features = DictOfFeatures(FeatureList(yaml_list))
       /\ result = Returned("__init__", [data_dir |-> data_dir, yaml_list |-> yaml_list],
                            "self")
  /\ opened = {PathJoin(data_dir, "config.yaml")}
  /\ pc = "idle"
  /\ it = NoIterator
  /\ batch = << >>
  /\ sample = EmptyMap

Next ==
  \/ get_parser_op
  \/ get_tf_dataset
  \/ make_batch_with_iterator
  \/ \E b \in 1..(MaxBatch + 1) : RunDraw(b)
  \/ ReturnBatch
  \/ get_standard_batch
  \/ get_placeholders
  \/ get_feed_dict
  \/ load_npz_file

Spec == Init /\ [][Next]_vars

----------------------------------------------------------------------------
(* The claims *)

\* the last call reached make_batch_with_iterator
BatchCall ==
  /\ result.op \in {"make_batch_with_iterator", "get_standard_batch"}
  /\ batch # << >>

Drawn == Cardinality({b \in DOMAIN batch : batch[b].done})

\* the iterator held at least n elements when the batch call started
HadAtLeast(n) ==
  /\ Len(it.src) > 0
  /\ it.rep = None \/ it.rep * Len(it.src) - (it.pos - Drawn) >= n

\* C1: a get_next operation that has run is never ahead of a non-sparse
\* output of the get_next before it: whenever draw b (b > 1) has been issued,
\* every tensor of every entry of draw b-1 that is not a SparseTensor (a plain
\* tensor, or the members of a dict entry) is available.
SequentialAdvance ==
  \A b \in DOMAIN batch :
    (b > 1 /\ batch[b].done) =>
      \A k \in DOMAIN batch[b - 1].elem :
        batch[b - 1].elem[k].type # "SparseTensor" =>
          \A m \in DOMAIN batch[b - 1].elem[k].parts :
            batch[batch[b - 1].elem[k].parts[m].draw].done

\* C1 witness: a batch of three over a sample with a dict entry and a sparse
\* entry, the second draw issued and the third not yet.
SequentialAdvanceReached ==
  /\ pc = "running"
  /\ Len(batch) = 3
  /\ batch[2].done /\ ~batch[3].done
  /\ \E k \in DOMAIN features : features[k].cls = "GraphFeature"
  /\ \E k \in DOMAIN features : features[k].cls = "SparseTensorFeature"

\* C2: a batch call on an iterator that held at least batch_size elements
\* ends by returning a mapping over exactly the registry's keys; the iterator
\* has been advanced batch_size times, and the value of each key is its
\* handler's stack of batch_size values, the b-th being that key's entry of
\* the b-th draw.
BatchStacksEveryDraw ==
  (BatchCall /\ pc = "idle" /\ HadAtLeast(Len(batch))) =>
    /\ result.status = "returned"
    /\ Drawn = result.args.batch_size
    /\ it.pos = result.args.batch_size +
                  (IF result.op = "make_batch_with_iterator"
                   THEN result.args.iterator.pos ELSE 0)
    /\ \A v \in result.value :
         /\ DOMAIN v = DOMAIN features
         /\ \A k \in DOMAIN features :
              /\ v[k].by = k
              /\ v[k].dim0 = result.args.batch_size
              /\ DOMAIN v[k].slices = 1..result.args.batch_size
              /\ \A b \in 1..result.args.batch_size :
                   v[k].slices[b] = parser_op(features, batch[b].rec)[k]

\* C2 witness: a batch of three over two features has been returned.
BatchStacksEveryDrawReached ==
  /\ BatchCall /\ pc = "idle" /\ result.status = "returned"
  /\ result.args.batch_size = 3
  /\ Cardinality(DOMAIN features) = 2

\* C3: a batch call on an iterator that held fewer than batch_size elements
\* ends in OutOfRangeError and hands back nothing; and no batch call ever
\* hands back a mapping with a value stacked from fewer than batch_size draws.
ShortIteratorFails ==
  (BatchCall /\ pc = "idle") =>
    /\ ~HadAtLeast(Len(batch)) =>
         /\ result.status = "raised"
         /\ result.err = "OutOfRangeError"
         /\ result.value = {}
    /\ \A v \in result.value : \A k \in DOMAIN v :
         v[k].dim0 >= result.args.batch_size /\ Len(v[k].slices) >= result.args.batch_size

\* C3 witness: the iterator ran out after the first draw of a larger batch.
ShortIteratorFailsReached ==
  /\ BatchCall /\ pc = "idle" /\ result.status = "raised"
  /\ Len(batch) >= 2
  /\ batch[1].done

\* the records a mode holds, and whether that is enough for the call
RecordsOf(name) ==
  LET files == TfrecordFiles(data_dir, name)
  IN  UNION {{files[f][i] : i \in DOMAIN files[f]} : f \in DOMAIN files}

\* C4: get_standard_batch completes without error, with shuffle_data True as
\* with shuffle_data False: over a registry that is not empty and a mode with
\* enough records for the batch, the call returns a batch.
StandardBatchCompletes ==
  (/\ result.op = "get_standard_batch"
   /\ pc = "idle"
   /\ features # EmptyMap
   /\ RecordsOf(result.args.name) # {}
   /\ \/ result.args.repeat = None
      \/ result.args.repeat * Cardinality(RecordsOf(result.args.name))
           >= result.args.batch_size)
    => result.status = "returned"

\* C5: get_tf_dataset returns a dataset for every mode name, an empty one
\* when no record file matches.
DatasetReturned ==
  result.op = "get_tf_dataset" =>
    /\ result.status = "returned"
    /\ \A ds \in result.value :
         RecordsOf(result.args.name) = {} => ds.src = << >>

\* C6: after construction the registry has one entry per distinct key of the
\* schema, as many as there are entries when no key repeats, and the handler
\* of a key is the one built from the last entry that has the key.
RegistryLastWins ==
  result.op = "__init__" =>
    LET yaml_list == result.args.yaml_list
        at(k)     == {i \in DOMAIN yaml_list : yaml_list[i].key = k}
    IN  /\ DOMAIN features = {yaml_list[i].key : i \in DOMAIN yaml_list}
        /\ (\A i, j \in DOMAIN yaml_list : yaml_list[i].key = yaml_list[j].key => i = j)
             => Cardinality(DOMAIN features) = Len(yaml_list)
        /\ \A k \in DOMAIN features :
             \E i \in at(k) :
               /\ \A j \in at(k) : j <= i
               /\ features[k].key = k
               /\ features[k].cls = yaml_list[i].__name__

\* C6 witness: a schema whose two entries share a key and name two classes.
RegistryLastWinsReached ==
  /\ result.op = "__init__"
  /\ Len(result.args.yaml_list) = 2
  /\ result.args.yaml_list[1].key = result.args.yaml_list[2].key
  /\ result.args.yaml_list[1].__name__ # result.args.yaml_list[2].__name__

\* C7: the parser maps a record to one entry per registry key, no more and
\* no fewer, each built by the key's handler from the tensors parsed under
\* the handler's own descriptors.
ParserYieldsRegistryKeys ==
  result.op = "get_parser_op" =>
    \A v \in result.value :
      /\ DOMAIN v = DOMAIN features
      /\ \A k \in DOMAIN features :
           /\ v[k].type = (CASE features[k].cls = "TensorFeature"       -> "Tensor"
                             [] features[k].cls = "SparseTensorFeature" -> "SparseTensor"
                             [] features[k].cls = "GraphFeature"        -> "dict")
           /\ DOMAIN v[k].parts = Members(features[k])
           /\ \A m \in Members(features[k]) :
                v[k].parts[m] =
                  [rec |-> result.args.record, field |-> DescKey(k, m),
                   how |-> get_feature_read(features[k])[DescKey(k, m)]]

\* C7 witness: the parser has been applied under a registry of two features.
ParserYieldsRegistryKeysReached ==
  /\ result.op = "get_parser_op"
  /\ result.status = "returned"
  /\ Cardinality(DOMAIN features) = 2

\* the file names the indexes of the model are written as
PaddedName(index) ==
  CASE index = 0     -> "0000.npz"
    [] index = 7     -> "0007.npz"
    [] index = 42    -> "0042.npz"
    [] index = 123   -> "0123.npz"
    [] index = 9999  -> "9999.npz"
    [] index = 10000 -> "10000.npz"

\* C8: load_npz_file opens <data_dir>/<name>/<index padded to 4 digits>.npz
\* and nothing else; it returns the archive as stored when the file exists
\* and fails with the not-found error, returning nothing, when it does not.
NpzExactFile ==
  result.op = "load_npz_file" =>
    LET path == data_dir \o "/" \o result.args.name \o "/" \o PaddedName(result.args.index)
    IN  /\ opened = {path}
        /\ path \in DOMAIN NpzFiles =>
             result.status = "returned" /\ result.value = {NpzFiles[path]}
        /\ path \notin DOMAIN NpzFiles =>
             /\ result.status = "raised"
             /\ result.err = "FileNotFoundError"
             /\ result.value = {}

\* C8 witness: index 7 of data_test has been loaded, with a stored key the
\* registry does not name.
NpzExactFileReached ==
  /\ result.op = "load_npz_file"
  /\ result.args.index = 7
  /\ result.status = "returned"
  /\ \E v \in result.value : \E k \in DOMAIN v : k \notin DOMAIN features

\* C9: get_feed_dict fails and returns nothing whenever value_dict lacks the
\* raw value of a registered key; when no handler fails it returns the union
\* of the handlers' feed mappings.
FeedDictAllOrNothing ==
  result.op = "get_feed_dict" =>
    LET value_dict   == result.args.value_dict
        placeholders == result.args.placeholders
    IN  IF \E k \in DOMAIN features : k \notin DOMAIN value_dict
        THEN result.status = "raised" /\ result.value = {}
        ELSE /\ result.status = "returned"
             /\ \A v \in result.value :
                  /\ DOMAIN v = {placeholders[d] : d \in DOMAIN placeholders}
                  /\ \A k \in DOMAIN features : \A m \in Members(features[k]) :
                       v[placeholders[DescKey(k, m)]].raw = value_dict[k]

\* C9 witness: of two registered keys value_dict had one and lacked the other.
FeedDictAllOrNothingReached ==
  /\ result.op = "get_feed_dict"
  /\ result.status = "raised"
  /\ \E k \in DOMAIN features : k \in DOMAIN result.args.value_dict
  /\ \E k \in DOMAIN features : k \notin DOMAIN result.args.value_dict

\* C10: no step of any call, returning or raising, changes the registry or
\* data_dir.
RegistryFrame == [][features' = features /\ data_dir' = data_dir]_vars

\* C10 witness: a call has failed under a registry of two features.
RegistryFrameReached ==
  /\ result.status = "raised"
  /\ result.op = "get_standard_batch"
  /\ result.err = "OutOfRangeError"
  /\ Cardinality(DOMAIN features) = 2

====
